---- MODULE Spec2Model ----
(***************************************************************************)
(* Model of DocumentClusterer (src/ahad's work/document_clusterer.py):     *)
(* the loaded document set, load_classified_documents and                  *)
(* cluster_by_field_similarity with its single-document shortcut, the      *)
(* TF-IDF vocabulary, the two partitioners and the cluster summary.        *)
(*                                                                         *)
(* Conventions.                                                            *)
(*  - A value that may be missing (a dict key, an optional argument) is a  *)
(*    sequence of length 0 (missing / None) or 1 (present).                *)
(*  - A field name is a sequence of characters, so that joining,           *)
(*    lowercasing and tokenizing are computed and not assumed.             *)
(*  - extracted_data is modelled by the sequence of its keys (insertion    *)
(*    order); the values are opaque to the clusterer.                      *)
(*  - list(set(...)) has the set's iteration order, which carries no       *)
(*    information; it is represented by the sorted sequence of the set.    *)
(***************************************************************************)
EXTENDS Integers, Sequences, FiniteSets, Bags, TLC

VARIABLES documents, outcome, call, labels, trace

vars == <<documents, outcome, call, labels, trace>>

(* ------------------------------ bounds --------------------------------- *)

\* longest document list a classified-results file holds in the model
MaxDocs == 3

\* largest explicit n_clusters argument tried
MaxK == 3

\* largest document count for which the cluster count alone is computed
MaxN == 20

(* ------------------------- characters and names ------------------------ *)

Chars == {" ", "-", "A", "a", "b"}

\* code-point order of the characters used
CharOrd(c) ==
  CASE c = " " -> 32
    [] c = "-" -> 45
    [] c = "A" -> 65
    [] c = "a" -> 97
    [] c = "b" -> 98

\* str.lower() on one character
LowerChar(c) == IF c = "A" THEN "a" ELSE c

\* \w of the token pattern
IsWordChar(c) == c \in {"A", "a", "b"}

Range(s) == {s[i] : i \in DOMAIN s}

None == <<>>

Some(v) == <<v>>

\* dict.get(key, default)
Get(opt, default) == IF opt = None THEN default ELSE opt[1]

\* Python string comparison (lexicographic by code point)
RECURSIVE StrLess(_, _)
StrLess(s, t) ==
  IF t = <<>> THEN FALSE
  ELSE IF s = <<>> THEN TRUE
  ELSE IF CharOrd(Head(s)) < CharOrd(Head(t)) THEN TRUE
  ELSE IF CharOrd(Head(s)) > CharOrd(Head(t)) THEN FALSE
  ELSE StrLess(Tail(s), Tail(t))

\* the elements of a finite set of strings in increasing order
RECURSIVE SortedSeq(_)
SortedSeq(S) ==
  IF S = {} THEN <<>>
  ELSE LET m == CHOOSE x \in S : \A y \in S \ {x} : StrLess(x, y)
       IN  <<m>> \o SortedSeq(S \ {m})

\* list(set(xs)) / list(a_set)
ListOfSet(S) == SortedSeq(S)

(* ------------------------------ documents ------------------------------ *)

nA == <<"a">>
nUpperA == <<"A">>
nB == <<"b">>
nAB == <<"a", " ", "b">>

Classification(dtype, fno, ed) ==
  [document_type |-> dtype, field_names_only |-> fno, extracted_data |-> ed]

Doc(fname, src, cls) ==
  [file_name |-> fname, source_file |-> src, classification |-> cls]

\* the documents a classified-results file is built from
DocPool ==
  { Doc(Some("f1"), Some("p1"), Some(Classification(Some("id"), Some(<<nA, nB>>), Some(<<nA, nB>>)))),
    Doc(Some("f2"), Some("p2"), Some(Classification(None, Some(<<nUpperA>>), Some(<<>>)))),
    Doc(Some("f3"), Some("p3"), Some(Classification(Some("form"), None, Some(<<nAB>>)))),
    Doc(Some("f4"), Some("p4"), Some(Classification(Some("empty_document"), Some(<<>>), Some(<<>>)))),
    Doc(Some("f5"), Some("p5"), Some(Classification(Some("bill"), Some(<<nB, nB>>), None))),
    Doc(None, Some("p6"), Some(Classification(Some("id"), Some(<<nA>>), Some(<<nA>>)))) }

nAA == <<"a", "a">>
nBB == <<"b", "b">>
nDash == <<"-">>

\* two documents with the same two field names, one with two other field
\* names (name, dob / invoice_no, amount, written over the characters of the
\* model as a, b / aa, bb), and one whose only field name has no word
\* character
ExamplePool ==
  { Doc(Some("g1"), Some("q1"), Some(Classification(Some("id"), Some(<<nA, nB>>), Some(<<nA, nB>>)))),
    Doc(Some("g2"), Some("q2"), Some(Classification(Some("id"), Some(<<nA, nB>>), Some(<<nA, nB>>)))),
    Doc(Some("g3"), Some("q3"), Some(Classification(Some("bill"), Some(<<nAA, nBB>>), Some(<<nAA, nBB>>)))),
    Doc(Some("g4"), Some("q4"), Some(Classification(Some("form"), Some(<<nDash>>), Some(<<nDash>>)))) }

AllDocs == DocPool \cup ExamplePool

RECURSIVE SeqsUpTo(_, _)
SeqsUpTo(S, n) ==
  IF n = 0 THEN {<<>>}
  ELSE LET shorter == SeqsUpTo(S, n - 1)
       IN  shorter \cup {Append(s, x) : s \in {t \in shorter : Len(t) = n - 1}, x \in S}

DocLists == SeqsUpTo(DocPool, MaxDocs)

ExampleLists == SeqsUpTo(ExamplePool, MaxDocs)

(* --------------------------- field vectorizer -------------------------- *)

\* variant: no fallback to the keys of extracted_data
EffectiveFields_noFallback(doc) == Get(doc.classification[1].field_names_only, <<>>)

\* the field list used for a document: field_names_only, or the keys of
\* extracted_data when that is missing or empty
EffectiveFields(doc) ==
  LET cls == doc.classification[1]
      field_names == Get(cls.field_names_only, <<>>)
  IN  IF field_names = <<>> THEN Get(cls.extracted_data, <<>>) ELSE field_names

\* " ".join(field_names)
RECURSIVE Join(_)
Join(names) ==
  IF names = <<>> THEN <<>>
  ELSE IF Len(names) = 1 THEN names[1]
  ELSE names[1] \o <<" ">> \o Join(Tail(names))

\* variant: the vectorizer is built with lowercase=False
Lower_identity(s) == s

\* str.lower()
Lower(s) == [i \in DOMAIN s |-> LowerChar(s[i])]

\* re.findall(r'\b\w+\b', s): the maximal runs of word characters, in order
RECURSIVE Scan(_, _, _)
Scan(s, cur, acc) ==
  IF s = <<>> THEN (IF cur = <<>> THEN acc ELSE Append(acc, cur))
  ELSE IF IsWordChar(Head(s)) THEN Scan(Tail(s), Append(cur, Head(s)), acc)
  ELSE Scan(Tail(s), <<>>, IF cur = <<>> THEN acc ELSE Append(acc, cur))

Tokenize(s) == Scan(s, <<>>, <<>>)

\* the analyzer of TfidfVectorizer(lowercase=True, token_pattern=r'\b\w+\b')
\* applied to one document's field string
Analyze(doc) == Tokenize(Lower(Join(EffectiveFields(doc))))

\* the token list of every document of the pool
DocTokens == [doc \in AllDocs |-> Analyze(doc)]

\* the vocabulary fitted on all the documents
Vocabulary(docs) == UNION {Range(DocTokens[docs[i]]) : i \in DOMAIN docs}

\* vectorizer.get_feature_names_out().tolist(): the vocabulary in sorted order
FeatureNames(docs) == SortedSeq(Vocabulary(docs))

\* one row of the term-count matrix: how often each token occurs
TokenCounts ==
  [doc \in AllDocs |->
     LET toks == DocTokens[doc]
     IN  [t \in Range(toks) |-> Cardinality({i \in DOMAIN toks : toks[i] = t})]]

(* ------------------------------ partitioner ---------------------------- *)

Methods == {"kmeans", "dbscan", "optics"}

\* the n_clusters arguments tried: None, or an integer
NClusterArgs == {None} \cup {Some(k) : k \in 0..MaxK}

Min(a, b) == IF a < b THEN a ELSE b

Max(a, b) == IF a > b THEN a ELSE b

\* variant: min and max are exchanged
DefaultK_swapped(n) == Max(5, Min(2, n \div 3))

\* the cluster count used when n_clusters is None
DefaultK(n) == Min(5, Max(2, n \div 3))

\* variant: the count is not clamped to the number of documents
EffectiveK_unclamped(n_clusters, n) ==
  IF n_clusters = None THEN DefaultK(n) ELSE n_clusters[1]

\* the cluster count handed to KMeans
EffectiveK(n_clusters, n) ==
  LET given == IF n_clusters = None THEN DefaultK(n) ELSE n_clusters[1]
  IN  Min(given, n)

\* KMeans(n_clusters=k).fit_predict on n rows raises for k < 1 (parameter
\* validation) and for k > n (n_samples should be >= n_clusters)
KMeansRejects(k, n) == k < 1 \/ k > n

\* the rows of X grouped by value, as far as it is decided without the
\* weights: rows with the same token counts are equal
RowClasses(docs) ==
  {{j \in DOMAIN docs : TokenCounts[docs[j]] = TokenCounts[docs[i]]} : i \in DOMAIN docs}

\* rows with different sets of tokens are different rows
RowsSurelyDiffer(docs) ==
  \A i, j \in DOMAIN docs :
     TokenCounts[docs[i]] # TokenCounts[docs[j]]
       => Range(DocTokens[docs[i]]) # Range(DocTokens[docs[j]])

\* variant: rows of different value may share a centre although there are as
\* many centres as values
KMeansLabelings_loose(docs, k) ==
  {l \in [DOMAIN docs -> 0..(k - 1)] :
     \A i, j \in DOMAIN docs :
        TokenCounts[docs[i]] = TokenCounts[docs[j]] => l[i] = l[j]}

\* KMeans(n_clusters=k, random_state=42, n_init=10).fit_predict(X): every row
\* gets the index of its nearest centre, so a label in 0..k-1, and rows with
\* the same token counts (bitwise equal rows of X) get the same label.  When
\* the rows take exactly k different values, the k-means++ seeding draws k
\* different rows (a row at distance 0 from a chosen centre has probability
\* 0), so every value is its own centre and rows of different value get
\* different labels.  Otherwise which labeling the arithmetic picks is left
\* open.
KMeansLabelings(docs, k) ==
  {l \in [DOMAIN docs -> 0..(k - 1)] :
     /\ \A i, j \in DOMAIN docs :
          TokenCounts[docs[i]] = TokenCounts[docs[j]] => l[i] = l[j]
     /\ (Cardinality(RowClasses(docs)) = k /\ RowsSurelyDiffer(docs)) =>
          \A i, j \in DOMAIN docs :
             l[i] = l[j] => TokenCounts[docs[i]] = TokenCounts[docs[j]]}

\* Cosine distance of two TF-IDF rows against eps = 0.5, as far as it is
\* decided without the weights: a row without tokens is at distance 1 from
\* every row, rows over disjoint token sets are at distance 1, rows with equal
\* token counts are at distance 0.
SurelyFar(da, db) == Range(DocTokens[da]) \cap Range(DocTokens[db]) = {}

SurelyNear(da, db) ==
  /\ DocTokens[da] # <<>>
  /\ TokenCounts[da] = TokenCounts[db]

Pairs(docs) == {p \in SUBSET (DOMAIN docs) : Cardinality(p) = 2}

\* the eps-neighbourhood graphs the distances allow (edges between distinct
\* rows; the pairs decided by neither rule depend on the TF-IDF weights)
NeighbourGraphs(docs) ==
  LET near == {p \in Pairs(docs) :
                 \E i, j \in p : i # j /\ SurelyNear(docs[i], docs[j])}
      open == {p \in Pairs(docs) :
                 \E i, j \in p : /\ i # j
                                 /\ ~SurelyNear(docs[i], docs[j])
                                 /\ ~SurelyFar(docs[i], docs[j])}
  IN  {near \cup extra : extra \in SUBSET open}

\* the rows density-reachable from row i in graph G
RECURSIVE Reach(_, _)
Reach(G, S) ==
  LET next == S \cup {j \in UNION G : \E p \in G : j \in p /\ p \cap S # {}}
  IN  IF next = S THEN S ELSE Reach(G, next)

SetMin(S) == CHOOSE x \in S : \A y \in S : x <= y

\* DBSCAN(eps=0.5, min_samples=2, metric='cosine').fit_predict over graph G:
\* with min_samples = 2 every row that has a neighbour is a core row, the
\* clusters are the connected components with at least two rows, numbered
\* 0, 1, ... in the order of their first row, and every other row is noise
DbscanLabels(docs, G) ==
  LET comp(i) == Reach(G, {i})
      firsts == {i \in DOMAIN docs : Cardinality(comp(i)) >= 2 /\ i = SetMin(comp(i))}
      num(i) == Cardinality({f \in firsts : f < SetMin(comp(i))})
  IN  [i \in DOMAIN docs |-> IF Cardinality(comp(i)) >= 2 THEN num(i) ELSE -1]

DbscanLabelings(docs) == {DbscanLabels(docs, G) : G \in NeighbourGraphs(docs)}

(* --------------------------- cluster summarizer ------------------------ *)

NoiseLabel == -1

\* variant: the noise branch is missing
ClusterLabel_noNoise(label) == "Cluster_" \o ToString(label)

\* variant: label 0 is taken for noise (`label > 0`)
ClusterLabel_positive(label) == IF label > 0 THEN "Cluster_" \o ToString(label) ELSE "Noise"

\* f"Cluster_{label}" if label >= 0 else "Noise"
ClusterLabel(label) == IF label >= 0 THEN "Cluster_" \o ToString(label) ELSE "Noise"

\* the per-document record put in a cluster's `documents` list
Projection(doc) ==
  [file_name |-> doc.file_name[1],
   file_path |-> doc.source_file[1],
   document_type |-> Get(doc.classification[1].document_type, "unknown"),
   field_names |-> EffectiveFields(doc),
   extracted_data |-> Get(doc.classification[1].extracted_data, <<>>)]

\* variant: the bucket is assigned, not appended to, so it keeps its last member
Grouped_assign(docs, lbls, name) ==
  LET idxs == SelectSeq([i \in DOMAIN docs |-> i], LAMBDA i : ClusterLabel(lbls[i]) = name)
  IN  IF idxs = <<>> THEN <<>> ELSE <<Projection(docs[idxs[Len(idxs)]])>>

\* variant: the bucket is prepended to (`insert(0, ...)`)
Grouped_prepend(docs, lbls, name) ==
  LET idxs == SelectSeq([i \in DOMAIN docs |-> i], LAMBDA i : ClusterLabel(lbls[i]) = name)
  IN  [n \in DOMAIN idxs |-> Projection(docs[idxs[Len(idxs) + 1 - n]])]

\* clusters[cluster_label]: the projections of the documents with that label,
\* appended in the order of enumerate(labels)
Grouped(docs, lbls, name) ==
  LET idxs == SelectSeq([i \in DOMAIN docs |-> i], LAMBDA i : ClusterLabel(lbls[i]) = name)
  IN  [n \in DOMAIN idxs |-> Projection(docs[idxs[n]])]

\* variant: members without fields are left out of the intersection
CommonFields_skipEmpty(members) ==
  LET withFields == {n \in DOMAIN members : members[n].field_names # <<>>}
  IN  {f \in UNION {Range(members[n].field_names) : n \in withFields} :
         \A n \in withFields : f \in Range(members[n].field_names)}

\* variant: a bucket needs two members to have common fields
CommonFields_needsTwo(members) ==
  IF Len(members) < 2 THEN {}
  ELSE {f \in Range(members[1].field_names) :
          \A n \in DOMAIN members : f \in Range(members[n].field_names)}

\* set.intersection(*all_fields) if all_fields else set()
CommonFields(members) ==
  IF members = <<>> THEN {}
  ELSE {f \in Range(members[1].field_names) :
          \A n \in DOMAIN members : f \in Range(members[n].field_names)}

\* variant: the union is taken over the keys of extracted_data
AllUniqueFields_keys(members) == UNION {Range(members[n].extracted_data) : n \in DOMAIN members}

\* variant: only the first member's fields are taken
AllUniqueFields_first(members) ==
  IF members = <<>> THEN {} ELSE Range(members[1].field_names)

\* set().union(*all_fields)
AllUniqueFields(members) == UNION {Range(members[n].field_names) : n \in DOMAIN members}

\* variant: document_count counts the distinct members (`len(set(...))`)
ClusterInfo_distinct(members) ==
  [document_count |-> Cardinality(Range(members)),
   common_fields |-> ListOfSet(CommonFields(members)),
   all_unique_fields |-> ListOfSet(AllUniqueFields(members)),
   documents |-> members]

\* cluster_info[cluster_label]
ClusterInfo(members) ==
  [document_count |-> Len(members),
   common_fields |-> ListOfSet(CommonFields(members)),
   all_unique_fields |-> ListOfSet(AllUniqueFields(members)),
   documents |-> members]

\* variant: the Noise bucket is counted too
CountClusters_all(keys) == Cardinality(keys)

\* len([k for k in clusters.keys() if k != "Noise"])
CountClusters(keys) == Cardinality({k \in keys : k # "Noise"})

\* the result dictionary of the general path
Summarize(docs, method, lbls) ==
  LET keys == {ClusterLabel(lbls[i]) : i \in DOMAIN docs}
  IN  [kind |-> "result",
       method |-> method,
       n_clusters |-> CountClusters(keys),
       clusters |-> [k \in keys |-> ClusterInfo(Grouped(docs, lbls, k))],
       vectorizer_features |-> FeatureNames(docs)]

\* The single-document shortcut (lines 45-75).  The loop at line 59 runs once
\* per document and overwrites all_unique_fields and common_fields each time,
\* so they end up as those of the last document, or as the initial [] when
\* there is none.

\* variant: common_fields keeps its initial []
SingleCommonFields_initial(docs) == <<>>

SingleCommonFields(docs) ==
  IF docs = <<>> THEN <<>> ELSE EffectiveFields(docs[Len(docs)])

SingleAllUniqueFields(docs) ==
  IF docs = <<>> THEN <<>> ELSE ListOfSet(Range(EffectiveFields(docs[Len(docs)])))

SingleResult(docs, method) ==
  [kind |-> "result",
   method |-> method,
   n_clusters |-> 0,
   clusters |-> [k \in {"Cluster_0"} |->
                  [document_count |-> Len(docs),
                   common_fields |-> SingleCommonFields(docs),
                   all_unique_fields |-> SingleAllUniqueFields(docs),
                   documents |-> [i \in DOMAIN docs |-> Projection(docs[i])]]],
   vectorizer_features |-> <<>>]

(* ------------------------------- outcomes ------------------------------ *)

Error(type, message) == [kind |-> "error", type |-> type, message |-> message]

\* the first key lookup that fails while a document is projected
MissingKey(doc) ==
  IF doc.file_name = None THEN Some("file_name")
  ELSE IF doc.source_file = None THEN Some("source_file")
  ELSE None

\* the first key lookup that fails in the loop body of the shortcut
SingleMissingKey(doc) ==
  IF doc.classification = None THEN Some("classification") ELSE MissingKey(doc)

\* variant: only a missing list is rejected (`self.documents is None`)
NoDocuments_isNone(docs) == FALSE

\* `not self.documents`
NoDocuments(docs) == docs = <<>>

\* variant: the shortcut is taken for fewer than one document
TooFewToCluster_one(docs) == Len(docs) < 1

\* `len(self.documents) < 2`
TooFewToCluster(docs) == Len(docs) < 2

\* the first document, in list order, whose projection fails
FirstMissing(docs) == docs[SetMin({i \in DOMAIN docs : MissingKey(docs[i]) # None})]

\* the first document, in list order, on which the shortcut's loop body fails
SingleFirstMissing(docs) ==
  docs[SetMin({i \in DOMAIN docs : SingleMissingKey(docs[i]) # None})]

NoDocumentsMessage ==
  <<"No documents to cluster. Load documents first using load_classified_documents().">>

EmptyVocabularyMessage ==
  <<"empty vocabulary; perhaps the documents only contain stop words">>

InvalidKMessage == <<"KMeans rejects n_clusters">>

UnknownMethodMessage(method) == <<"Unknown method: ", method>>

\* whether the call gets as far as running a partitioner on these documents
PartitionerRuns(docs, n_clusters, method) ==
  /\ ~NoDocuments(docs)
  /\ ~TooFewToCluster(docs)
  /\ \A i \in DOMAIN docs : docs[i].classification # None
  /\ Vocabulary(docs) # {}
  /\ \/ method = "kmeans" /\ ~KMeansRejects(EffectiveK(n_clusters, Len(docs)), Len(docs))
     \/ method = "dbscan"

\* the label vectors fit_predict may return (<<>> when no partitioner runs)
PossibleLabels(docs, n_clusters, method) ==
  IF ~PartitionerRuns(docs, n_clusters, method) THEN {<<>>}
  ELSE IF method = "kmeans" THEN KMeansLabelings(docs, EffectiveK(n_clusters, Len(docs)))
  ELSE DbscanLabelings(docs)

\* lines 104-139: grouping, summary and result once the labels are known
Grouping(docs, method, lbls) ==
  IF \E i \in DOMAIN docs : MissingKey(docs[i]) # None
    THEN Error("KeyError", <<MissingKey(FirstMissing(docs))[1]>>)
    ELSE Summarize(docs, method, lbls)

\* variant: the cluster count is validated before the method is looked at
cluster_by_field_similarity_kFirst(docs, n_clusters, method, lbls) ==
  IF NoDocuments(docs) THEN
    [outcome |-> Error("ValueError", NoDocumentsMessage), trace |-> <<>>]
  ELSE IF TooFewToCluster(docs) THEN
    [outcome |-> IF \E i \in DOMAIN docs : SingleMissingKey(docs[i]) # None
                   THEN Error("KeyError", <<SingleMissingKey(SingleFirstMissing(docs))[1]>>)
                   ELSE SingleResult(docs, method),
     trace |-> <<>>]
  ELSE IF \E i \in DOMAIN docs : docs[i].classification = None THEN
    [outcome |-> Error("KeyError", <<"classification">>), trace |-> <<>>]
  ELSE IF Vocabulary(docs) = {} THEN
    [outcome |-> Error("ValueError", EmptyVocabularyMessage),
     trace |-> <<"fit_transform">>]
  ELSE IF KMeansRejects(EffectiveK(n_clusters, Len(docs)), Len(docs)) THEN
    [outcome |-> Error("ValueError", InvalidKMessage),
     trace |-> <<"fit_transform", "KMeans.fit_predict">>]
  ELSE IF method = "kmeans" THEN
    [outcome |-> Grouping(docs, method, lbls),
     trace |-> <<"fit_transform", "KMeans.fit_predict">>]
  ELSE IF method = "dbscan" THEN
    [outcome |-> Grouping(docs, method, lbls),
     trace |-> <<"fit_transform", "DBSCAN.fit_predict">>]
  ELSE
    [outcome |-> Error("ValueError", UnknownMethodMessage(method)),
     trace |-> <<"fit_transform">>]

\* cluster_by_field_similarity(n_clusters, method) on self.documents = docs,
\* with lbls the label vector the partitioner returns: what the call returns
\* or raises, and the library calls it makes, in order
cluster_by_field_similarity(docs, n_clusters, method, lbls) ==
  IF NoDocuments(docs) THEN
    [outcome |-> Error("ValueError", NoDocumentsMessage), trace |-> <<>>]
  ELSE IF TooFewToCluster(docs) THEN
    [outcome |-> IF \E i \in DOMAIN docs : SingleMissingKey(docs[i]) # None
                   THEN Error("KeyError", <<SingleMissingKey(SingleFirstMissing(docs))[1]>>)
                   ELSE SingleResult(docs, method),
     trace |-> <<>>]
  ELSE IF \E i \in DOMAIN docs : docs[i].classification = None THEN
    [outcome |-> Error("KeyError", <<"classification">>), trace |-> <<>>]
  ELSE IF Vocabulary(docs) = {} THEN
    [outcome |-> Error("ValueError", EmptyVocabularyMessage),
     trace |-> <<"fit_transform">>]
  ELSE IF method = "kmeans" THEN
    IF KMeansRejects(EffectiveK(n_clusters, Len(docs)), Len(docs))
      THEN [outcome |-> Error("ValueError", InvalidKMessage),
            trace |-> <<"fit_transform", "KMeans.fit_predict">>]
      ELSE [outcome |-> Grouping(docs, method, lbls),
            trace |-> <<"fit_transform", "KMeans.fit_predict">>]
  ELSE IF method = "dbscan" THEN
    [outcome |-> Grouping(docs, method, lbls),
     trace |-> <<"fit_transform", "DBSCAN.fit_predict">>]
  ELSE
    [outcome |-> Error("ValueError", UnknownMethodMessage(method)),
     trace |-> <<"fit_transform">>]

(* ------------- DocumentProcessor.cluster_by_field_similarity ----------- *)

\* src/main.py has a second implementation of the clustering call.  It has no
\* shortcut for fewer than two documents and does not clamp the cluster
\* count; vectorizing, partitioning, grouping and summary are the same code.

ProcessorNoDocumentsMessage ==
  <<"No documents to cluster. Process documents first using process_multiple_documents().">>

\* variant: the default count has no lower limit (`min(5, n // 3)`)
ProcessorEffectiveK_noFloor(n_clusters, n) ==
  IF n_clusters = None THEN Min(5, n \div 3) ELSE n_clusters[1]

\* the cluster count handed to KMeans
ProcessorEffectiveK(n_clusters, n) ==
  IF n_clusters = None THEN Min(5, Max(2, n \div 3)) ELSE n_clusters[1]

\* whether the call gets as far as running a partitioner on these documents
ProcessorPartitionerRuns(docs, n_clusters, method) ==
  /\ docs # <<>>
  /\ \A i \in DOMAIN docs : docs[i].classification # None
  /\ Vocabulary(docs) # {}
  /\ \/ method = "kmeans" /\ ~KMeansRejects(ProcessorEffectiveK(n_clusters, Len(docs)), Len(docs))
     \/ method = "dbscan"

\* DocumentProcessor.cluster_by_field_similarity(n_clusters, method) on
\* self.documents = docs, with lbls the label vector the partitioner returns
processor_cluster_by_field_similarity(docs, n_clusters, method, lbls) ==
  IF docs = <<>> THEN
    Error("ValueError", ProcessorNoDocumentsMessage)
  ELSE IF \E i \in DOMAIN docs : docs[i].classification = None THEN
    Error("KeyError", <<"classification">>)
  ELSE IF Vocabulary(docs) = {} THEN
    Error("ValueError", EmptyVocabularyMessage)
  ELSE IF method = "kmeans" THEN
    IF KMeansRejects(ProcessorEffectiveK(n_clusters, Len(docs)), Len(docs))
      THEN Error("ValueError", InvalidKMessage)
      ELSE Grouping(docs, method, lbls)
  ELSE IF method = "dbscan" THEN
    Grouping(docs, method, lbls)
  ELSE
    Error("ValueError", UnknownMethodMessage(method))

(* ------------------------------ the machine ---------------------------- *)

\* what open() and json.load() find at input_path
Files ==
  {[status |-> "missing"], [status |-> "invalid_json"]}
  \cup {[status |-> "ok", documents |-> d, total_documents |-> t] :
          d \in {None} \cup {Some(l) : l \in DocLists}, t \in {None, Some("n")}}

\* the call in progress: its arguments (input holds the file a load reads) and
\* held, the length of self.documents when the call began
NoCall == [op |-> "none", n_clusters |-> None, method |-> "", input |-> None, held |-> 0]

\* DocumentClusterer()
Init ==
  /\ documents = <<>>
  /\ outcome = [kind |-> "none"]
  /\ call = NoCall
  /\ labels = <<>>
  /\ trace = <<>>

\* variant: the documents read are appended to the ones held
Load_append(file) ==
  /\ call = NoCall
  /\ call' = [op |-> "load", n_clusters |-> None, method |-> "",
               input |-> Some(file), held |-> Len(documents)]
  /\ labels' = <<>>
  /\ trace' = <<>>
  /\ IF file.status = "missing" THEN
       /\ outcome' = Error("FileNotFoundError", <<"input_path">>)
       /\ UNCHANGED documents
     ELSE IF file.status = "invalid_json" THEN
       /\ outcome' = Error("JSONDecodeError", <<"input_path">>)
       /\ UNCHANGED documents
     ELSE IF file.documents = None THEN
       /\ outcome' = Error("KeyError", <<"documents">>)
       /\ UNCHANGED documents
     ELSE
       /\ documents' = documents \o file.documents[1]
       /\ outcome' = IF file.total_documents = None
                       THEN Error("KeyError", <<"total_documents">>)
                       ELSE [kind |-> "loaded"]

\* load_classified_documents(input_path), called when no call is in progress
Load(file) ==
  /\ call = NoCall
  /\ call' = [op |-> "load", n_clusters |-> None, method |-> "",
               input |-> Some(file), held |-> Len(documents)]
  /\ labels' = <<>>
  /\ trace' = <<>>
  /\ IF file.status = "missing" THEN
       /\ outcome' = Error("FileNotFoundError", <<"input_path">>)
       /\ UNCHANGED documents
     ELSE IF file.status = "invalid_json" THEN
       /\ outcome' = Error("JSONDecodeError", <<"input_path">>)
       /\ UNCHANGED documents
     ELSE IF file.documents = None THEN
       /\ outcome' = Error("KeyError", <<"documents">>)
       /\ UNCHANGED documents
     ELSE
       /\ documents' = file.documents[1]
       /\ outcome' = IF file.total_documents = None
                       THEN Error("KeyError", <<"total_documents">>)
                       ELSE [kind |-> "loaded"]

\* variant: the document type is read with setdefault, which writes the
\* default into the loaded document
Cluster_setdefault(n_clusters, method) ==
  /\ call = NoCall
  /\ \E lbls \in PossibleLabels(documents, n_clusters, method) :
       LET r == cluster_by_field_similarity(documents, n_clusters, method, lbls)
       IN  /\ call' = [op |-> "cluster", n_clusters |-> n_clusters, method |-> method,
                            input |-> None, held |-> Len(documents)]
           /\ labels' = lbls
           /\ outcome' = r.outcome
           /\ trace' = r.trace
           /\ documents' =
                IF r.outcome.kind # "result" THEN documents
                ELSE [i \in DOMAIN documents |->
                        [documents[i] EXCEPT !.classification =
                           Some([documents[i].classification[1] EXCEPT !.document_type =
                                   Some(Get(documents[i].classification[1].document_type,
                                            "unknown"))])]]

\* cluster_by_field_similarity(n_clusters, method), called when no call is in
\* progress
Cluster(n_clusters, method) ==
  /\ call = NoCall
  /\ \E lbls \in PossibleLabels(documents, n_clusters, method) :
       LET r == cluster_by_field_similarity(documents, n_clusters, method, lbls)
       IN  /\ call' = [op |-> "cluster", n_clusters |-> n_clusters, method |-> method,
                            input |-> None, held |-> Len(documents)]
           /\ labels' = lbls
           /\ outcome' = r.outcome
           /\ trace' = r.trace
           /\ UNCHANGED documents

\* the call is over: its return value or exception, and the locals of the
\* call, are gone; self.documents is all that stays
Return ==
  /\ call # NoCall
  /\ call' = NoCall
  /\ outcome' = [kind |-> "none"]
  /\ labels' = <<>>
  /\ trace' = <<>>
  /\ UNCHANGED documents

Next ==
  \/ \E file \in Files : Load(file)
  \/ \E n_clusters \in NClusterArgs, method \in Methods : Cluster(n_clusters, method)
  \/ Return

Spec == Init /\ [][Next]_vars

(* ------------------- the clusterer on the example files ---------------- *)

\* classified-results files over the example documents
ExampleFiles ==
  {[status |-> "ok", documents |-> Some(l), total_documents |-> Some("n")] :
     l \in ExampleLists}

NextE ==
  \/ \E file \in ExampleFiles : Load(file)
  \/ \E n_clusters \in NClusterArgs, method \in Methods : Cluster(n_clusters, method)
  \/ Return

SpecE == Init /\ [][NextE]_vars

(* ---------------- the cluster count of the kmeans branch --------------- *)

\* the n_clusters arguments tried for the cluster count alone
KArgs == {None} \cup {Some(k) : k \in 0..(MaxN + 1)}

\* lines 89-96 for a document list of length n: the count handed to KMeans
\* and whether KMeans accepts it
ChooseK(n, n_clusters) ==
  /\ call = NoCall
  /\ call' = [op |-> "kmeans_k", n_clusters |-> n_clusters, method |-> "kmeans",
               input |-> None, held |-> 0]
  /\ outcome' = [kind |-> "k",
                 n |-> n,
                 k |-> EffectiveK(n_clusters, n),
                 accepted |-> ~KMeansRejects(EffectiveK(n_clusters, n), n)]
  /\ UNCHANGED <<documents, labels, trace>>

NextK ==
  \/ \E n \in 2..MaxN, n_clusters \in KArgs : ChooseK(n, n_clusters)
  \/ Return

SpecK == Init /\ [][NextK]_vars

(* ------------------------------ properties ----------------------------- *)

KnownMethods == {"kmeans", "dbscan"}

\* the last operation was a clustering call
Clustered == call.op = "cluster"

\* the last operation was a clustering call that returned a result
Returned == Clustered /\ outcome.kind = "result"

\* the error the source raises for an empty document set
IsInsufficientData(o) ==
  /\ o.kind = "error"
  /\ o.type = "ValueError"
  /\ o.message = NoDocumentsMessage

\* the error the source raises for an unrecognized method name
IsUnknownMethod(o) ==
  /\ o.kind = "error"
  /\ o.type = "ValueError"
  /\ o.message[1] = "Unknown method: "

BagOfSeq(s) == [x \in Range(s) |-> Cardinality({i \in DOMAIN s : s[i] = x})]

RECURSIVE BagOfClusters(_, _)
BagOfClusters(clusters, keys) ==
  IF keys = {} THEN EmptyBag
  ELSE LET k == CHOOSE x \in keys : TRUE
       IN  BagOfSeq(clusters[k].documents) (+) BagOfClusters(clusters, keys \ {k})

\* the indexes of the loaded documents whose label renders as cluster key k
MembersOf(k) == {i \in DOMAIN documents : ClusterLabel(labels[i]) = k}

\* C1: in every returned result the `documents` lists of the clusters, Noise
\* included, hold the projections of the loaded documents, each exactly as
\* often as it was loaded: no document is dropped and none is duplicated.
C1_PartitionComplete ==
  Returned =>
    BagOfClusters(outcome.clusters, DOMAIN outcome.clusters)
      = BagOfSeq([i \in DOMAIN documents |-> Projection(documents[i])])

C1_Witness ==
  /\ Returned
  /\ call.method = "dbscan"
  /\ Len(documents) = 3
  /\ documents[1] = documents[2]
  /\ DocTokens[documents[3]] = <<>>
  /\ "Noise" \in DOMAIN outcome.clusters
  /\ "Cluster_0" \in DOMAIN outcome.clusters

\* C2: a clustering call on an empty document set raises the "no documents"
\* ValueError, whatever the method and n_clusters, and runs no library call.
C2_EmptyIsInsufficientData ==
  (Clustered /\ documents = <<>>) =>
    /\ IsInsufficientData(outcome)
    /\ labels = <<>>
    /\ trace = <<>>

C2_Witness ==
  /\ Clustered
  /\ documents = <<>>
  /\ call.method = "optics"
  /\ call.n_clusters = Some(2)
  /\ IsInsufficientData(outcome)

\* C3: with exactly one document loaded the call runs neither the vectorizer
\* nor a partitioner, and (the document having its keys) returns a result
\* with the single cluster "Cluster_0" holding that document, n_clusters = 0
\* and vectorizer_features = [], for every n_clusters argument.
C3_SingletonShortcut ==
  (Clustered /\ Len(documents) = 1) =>
    /\ trace = <<>>
    /\ labels = <<>>
    /\ outcome.kind = "result" <=> SingleMissingKey(documents[1]) = None
    /\ outcome.kind = "result" =>
         /\ DOMAIN outcome.clusters = {"Cluster_0"}
         /\ outcome.clusters["Cluster_0"].documents = <<Projection(documents[1])>>
         /\ outcome.n_clusters = 0
         /\ outcome.vectorizer_features = <<>>

C3_Witness ==
  /\ Returned
  /\ Len(documents) = 1
  /\ call.method = "kmeans"
  /\ call.n_clusters = Some(3)
  /\ DOMAIN outcome.clusters = {"Cluster_0"}

C5_UnknownMethodRejected ==
  (Clustered /\ Len(documents) >= 2 /\ call.method \notin KnownMethods) =>
    /\ IsUnknownMethod(outcome)
    /\ call.method \in Range(outcome.message)

\* C6 as claimed: a call with an unrecognized method on a non-empty document
\* set never returns a result.
C6_UnknownMethodNeverReturns ==
  (Clustered /\ documents # <<>> /\ call.method \notin KnownMethods) =>
    outcome.kind # "result"

\* C7 as claimed: when the call raises the "Unknown method" error, the
\* vectorizer's fit_transform has not run.
C7_RejectedBeforeVectorizing ==
  (Clustered /\ IsUnknownMethod(outcome)) => "fit_transform" \notin Range(trace)

\* C8: with two or more documents, n_clusters is the number of distinct
\* non-noise labels the partitioner returned, which is the number of cluster
\* keys other than "Noise".
C8_NClustersCountsNonNoise ==
  (Returned /\ Len(documents) >= 2) =>
    /\ outcome.n_clusters = Cardinality(Range(labels) \ {NoiseLabel})
    /\ outcome.n_clusters = Cardinality(DOMAIN outcome.clusters \ {"Noise"})

C8_Witness ==
  /\ Returned
  /\ call.method = "dbscan"
  /\ Len(documents) = 3
  /\ DocTokens[documents[1]] = <<>>
  /\ documents[2] = documents[3]
  /\ labels = <<NoiseLabel, 0, 0>>
  /\ "Noise" \in DOMAIN outcome.clusters
  /\ outcome.n_clusters = 1

\* C9: in every returned result, each cluster's common_fields is a subset of
\* its all_unique_fields.
C9_CommonWithinAllUnique ==
  Returned =>
    \A k \in DOMAIN outcome.clusters :
      Range(outcome.clusters[k].common_fields)
        \subseteq Range(outcome.clusters[k].all_unique_fields)

C9_Witness ==
  /\ Returned
  /\ call.method = "kmeans"
  /\ call.n_clusters = Some(1)
  /\ Len(documents) >= 2
  /\ \E k \in DOMAIN outcome.clusters :
       /\ outcome.clusters[k].common_fields # <<>>
       /\ Range(outcome.clusters[k].common_fields)
            # Range(outcome.clusters[k].all_unique_fields)

\* C10: with two or more documents, each cluster's common_fields is the
\* intersection of the effective field-name sets of the documents labelled
\* into it, and is empty when one of them has no fields.
C10_CommonIsIntersection ==
  (Returned /\ Len(documents) >= 2) =>
    \A k \in DOMAIN outcome.clusters :
      LET universe == UNION {Range(EffectiveFields(documents[i])) : i \in DOMAIN documents}
          common == Range(outcome.clusters[k].common_fields)
      IN  /\ common = {f \in universe :
                         \A i \in MembersOf(k) : f \in Range(EffectiveFields(documents[i]))}
          /\ (\E i \in MembersOf(k) : EffectiveFields(documents[i]) = <<>>) => common = {}

C10_Witness ==
  /\ Returned
  /\ call.method = "kmeans"
  /\ call.n_clusters = Some(1)
  /\ Len(documents) >= 2
  /\ \E k \in DOMAIN outcome.clusters :
       /\ outcome.clusters[k].common_fields = <<>>
       /\ \E i, j \in MembersOf(k) :
            /\ EffectiveFields(documents[i]) = <<>>
            /\ EffectiveFields(documents[j]) # <<>>

\* C11: in every returned result each cluster's all_unique_fields holds every
\* field name of the effective field lists of its members, nothing else, and
\* nothing twice; on the single-document path it is the set of that
\* document's own field names.
C11_AllUniqueIsUnion ==
  Returned =>
    \A k \in DOMAIN outcome.clusters :
      LET all == outcome.clusters[k].all_unique_fields
      IN  /\ Len(all) = Cardinality(Range(all))
          /\ Range(all) =
               IF Len(documents) = 1
                 THEN Range(EffectiveFields(documents[1]))
                 ELSE UNION {Range(EffectiveFields(documents[i])) : i \in MembersOf(k)}

C11_Witness ==
  /\ Returned
  /\ call.method = "kmeans"
  /\ call.n_clusters = Some(1)
  /\ Len(documents) = 3
  /\ \E k \in DOMAIN outcome.clusters :
       /\ Len(outcome.clusters[k].all_unique_fields) = 3
       /\ \A i \in DOMAIN documents :
            Range(EffectiveFields(documents[i])) # Range(outcome.clusters[k].all_unique_fields)

\* C12: a document labelled L >= 0 is in the bucket "Cluster_L" and in no
\* other bucket, and a document labelled -1 is in the bucket "Noise" and in no
\* numbered bucket.
C12_LabelNamesBucket ==
  (Returned /\ Len(documents) >= 2) =>
    \A i \in DOMAIN documents :
      LET home == IF labels[i] = NoiseLabel THEN "Noise"
                  ELSE "Cluster_" \o ToString(labels[i])
      IN  /\ labels[i] >= NoiseLabel
          /\ home \in DOMAIN outcome.clusters
          /\ \A k \in DOMAIN outcome.clusters :
               Projection(documents[i]) \in Range(outcome.clusters[k].documents) <=> k = home

C12_Witness ==
  /\ Returned
  /\ call.method = "dbscan"
  /\ Len(documents) = 3
  /\ DocTokens[documents[2]] = <<>>
  /\ documents[1] = documents[3]
  /\ labels = <<0, NoiseLabel, 0>>
  /\ Len(outcome.clusters["Noise"].documents) = 1
  /\ Len(outcome.clusters["Cluster_0"].documents) = 2

\* C13: under kmeans with two or more documents every label is in 0..k-1 for
\* the cluster count k = min(n_clusters or default, number of documents), the
\* result has no "Noise" bucket and every key is "Cluster_i" with 0 <= i < k.
C13_KMeansNeverNoise ==
  (Returned /\ Len(documents) >= 2 /\ call.method = "kmeans") =>
    LET n == Len(documents)
        third == n \div 3
        asked == IF call.n_clusters # None THEN call.n_clusters[1]
                 ELSE IF third < 2 THEN 2 ELSE IF third > 5 THEN 5 ELSE third
        k == IF asked > n THEN n ELSE asked
    IN  /\ \A i \in DOMAIN labels : labels[i] \in 0..(k - 1)
        /\ "Noise" \notin DOMAIN outcome.clusters
        /\ DOMAIN outcome.clusters \subseteq {"Cluster_" \o ToString(i) : i \in 0..(k - 1)}

C13_Witness ==
  /\ Returned
  /\ call.method = "kmeans"
  /\ call.n_clusters = Some(1)
  /\ Len(documents) = 3
  /\ DOMAIN outcome.clusters = {"Cluster_0"}
  /\ outcome.n_clusters = 1

\* C14: under kmeans with n_clusters not given, the cluster count used for n
\* documents (n >= 2) is min(5, max(2, n // 3)): 2 up to n = 8, n // 3 from
\* there to n = 14, 5 from n = 15 on; it lies between 2 and 5.
C14_DefaultClusterCount ==
  (outcome.kind = "k" /\ call.n_clusters = None) =>
    /\ outcome.k \in 2..5
    /\ outcome.k = IF outcome.n <= 8 THEN 2
                   ELSE IF outcome.n >= 15 THEN 5
                   ELSE outcome.n \div 3
    /\ outcome.accepted

C14_Witness ==
  /\ outcome.kind = "k"
  /\ call.n_clusters = None
  /\ outcome.n = 12
  /\ outcome.k = 4

\* C15: under kmeans the cluster count handed to the partitioner is at most
\* the number of documents, for every given n_clusters and for the default; a
\* request for more clusters than documents is clamped to the number of
\* documents and accepted.
C15_ClusterCountClamped ==
  outcome.kind = "k" =>
    /\ outcome.k <= outcome.n
    /\ (call.n_clusters # None /\ call.n_clusters[1] > outcome.n) =>
         (outcome.k = outcome.n /\ outcome.accepted)
    /\ (call.n_clusters # None /\ call.n_clusters[1] \in 1..outcome.n) =>
         (outcome.k = call.n_clusters[1] /\ outcome.accepted)

C15_Witness ==
  /\ outcome.kind = "k"
  /\ call.n_clusters = Some(7)
  /\ outcome.n = 3
  /\ outcome.k = 3
  /\ outcome.accepted

\* the field list C16 expects for a loaded document, read off its record
ExpectedFields(doc) ==
  LET cls == doc.classification[1]
  IN  IF cls.field_names_only # None /\ cls.field_names_only[1] # <<>>
        THEN cls.field_names_only[1]
      ELSE IF cls.extracted_data # None THEN cls.extracted_data[1]
      ELSE <<>>

C17_MissingKeysNeverFatal ==
  Clustered => ~(outcome.kind = "error" /\ outcome.type = "KeyError")

\* C18 as claimed: with two or more documents whose effective field lists are
\* all empty, a call with a known method and a usable n_clusters returns a
\* result with vectorizer_features = [] and all documents in one group whose
\* common_fields is [].
C18_AllEmptyFieldsSucceeds ==
  ( /\ Clustered
    /\ Len(documents) >= 2
    /\ call.method \in KnownMethods
    /\ call.n_clusters = None \/ call.n_clusters[1] >= 1
    /\ \A i \in DOMAIN documents :
         /\ SingleMissingKey(documents[i]) = None
         /\ ExpectedFields(documents[i]) = <<>> ) =>
    /\ outcome.kind = "result"
    /\ outcome.vectorizer_features = <<>>
    /\ Cardinality(DOMAIN outcome.clusters) = 1
    /\ \A k \in DOMAIN outcome.clusters :
         /\ outcome.clusters[k].common_fields = <<>>
         /\ outcome.clusters[k].document_count = Len(documents)

\* the step is a load that read a documents list from its file
ReadsDocuments ==
  /\ call'.op = "load"
  /\ call'.input[1].status = "ok"
  /\ call'.input[1].documents # None

\* C20: every load that reads a documents list replaces the document set by
\* that list whatever was held before, no other step changes the document
\* set, and the outcome of every clustering call is the function of the
\* document set then held, the method, n_clusters and the partitioner's
\* labels, so that earlier loads and clustering calls leave no residue.
C20_NoResidue ==
  [][ /\ ReadsDocuments => documents' = call'.input[1].documents[1]
      /\ ~ReadsDocuments => documents' = documents
      /\ call'.op = "cluster" =>
           /\ labels' \in PossibleLabels(documents', call'.n_clusters, call'.method)
           /\ outcome' = cluster_by_field_similarity(documents', call'.n_clusters,
                                                     call'.method, labels').outcome
    ]_vars

C20_Witness ==
  /\ call.op = "load"
  /\ call.held = 2
  /\ call.input[1].status = "ok"
  /\ call.input[1].documents # None
  /\ Len(call.input[1].documents[1]) = 1
  /\ documents = call.input[1].documents[1]

\* C21: a clustering call, whether it returns a result or raises, leaves the
\* loaded document list and every document's file_name, source_file and
\* classification record as they were before the call.
C21_ClusterKeepsDocuments ==
  [][ call'.op = "cluster" => documents' = documents ]_vars

C21_Witness ==
  /\ Returned
  /\ Len(documents) >= 2
  /\ \E i \in DOMAIN documents :
       /\ documents[i].classification[1].document_type = None
       /\ \E k \in DOMAIN outcome.clusters :
            \E n \in DOMAIN outcome.clusters[k].documents :
              /\ outcome.clusters[k].documents[n].file_name = documents[i].file_name[1]
              /\ outcome.clusters[k].documents[n].document_type = "unknown"

\* the member file names of the cluster that holds file f
ClusterFilesOf(f) ==
  LET k == CHOOSE k \in DOMAIN outcome.clusters :
             \E n \in DOMAIN outcome.clusters[k].documents :
               outcome.clusters[k].documents[n].file_name = f
  IN  [names |-> {outcome.clusters[k].documents[n].file_name :
                    n \in DOMAIN outcome.clusters[k].documents},
       common |-> Range(outcome.clusters[k].common_fields)]

\* the loaded list is the two documents with fields [a, b] and the one with
\* fields [aa, bb], each once, in any order
IsExampleTriple ==
  /\ Len(documents) = 3
  /\ {documents[i].file_name[1] : i \in DOMAIN documents} = {"g1", "g2", "g3"}

\* C22: for two documents with field names [name, dob] and one with
\* [invoice_no, amount], kmeans with n_clusters = 2 returns a result in which
\* the first two share a cluster, the third is alone in the other cluster, and
\* the common_fields of the shared cluster are exactly {name, dob}.
C22_ExampleSeparated ==
  ( /\ Clustered
    /\ IsExampleTriple
    /\ call.method = "kmeans"
    /\ call.n_clusters = Some(2) ) =>
    /\ outcome.kind = "result"
    /\ Cardinality(DOMAIN outcome.clusters) = 2
    /\ ClusterFilesOf("g1").names = {"g1", "g2"}
    /\ ClusterFilesOf("g3").names = {"g3"}
    /\ ClusterFilesOf("g1").common = {nA, nB}

C22_Witness ==
  /\ Returned
  /\ IsExampleTriple
  /\ call.method = "kmeans"
  /\ call.n_clusters = Some(2)
  /\ ClusterFilesOf("g2").names = {"g1", "g2"}

\* the sum of document_count over the clusters named in keys
RECURSIVE SumCounts(_, _)
SumCounts(clusters, keys) ==
  IF keys = {} THEN 0
  ELSE LET k == CHOOSE k \in keys : TRUE
       IN  clusters[k].document_count + SumCounts(clusters, keys \ {k})

\* C23: in every returned result every cluster, numbered or Noise, has at
\* least one member, its document_count is the length of its documents list,
\* and the document_count values sum to the number of loaded documents.
C23_CountsAreMemberCounts ==
  Returned =>
    /\ \A k \in DOMAIN outcome.clusters :
         /\ Len(outcome.clusters[k].documents) >= 1
         /\ outcome.clusters[k].document_count = Len(outcome.clusters[k].documents)
    /\ SumCounts(outcome.clusters, DOMAIN outcome.clusters) = Len(documents)

C23_Witness ==
  /\ Returned
  /\ call.method = "dbscan"
  /\ Len(documents) = 3
  /\ documents[1] = documents[2]
  /\ DOMAIN outcome.clusters = {"Cluster_0", "Noise"}
  /\ outcome.clusters["Cluster_0"].document_count = 2
  /\ outcome.clusters["Noise"].document_count = 1
  /\ outcome.clusters["Noise"].documents[1].field_names = <<>>

\* C24: under dbscan the n_clusters argument has no effect: with any other
\* n_clusters, absent included, the call runs the partitioner on the loaded
\* documents in the same cases and, for the same partitioner output, returns
\* or raises the same.
C24_DbscanIgnoresNClusters ==
  (Clustered /\ call.method = "dbscan") =>
    \A n_clusters \in NClusterArgs :
      /\ PartitionerRuns(documents, n_clusters, "dbscan")
           = PartitionerRuns(documents, call.n_clusters, "dbscan")
      /\ outcome = cluster_by_field_similarity(documents, n_clusters, "dbscan", labels).outcome

C24_Witness ==
  /\ Returned
  /\ call.method = "dbscan"
  /\ call.n_clusters = Some(0)
  /\ Len(documents) = 3
  /\ documents[1] = documents[2]
  /\ EffectiveFields(documents[1]) # <<>>
  /\ "Cluster_0" \in DOMAIN outcome.clusters

\* the word tokens of the loaded documents' space-joined field lists, each
\* written in lower case
LoweredTokens ==
  {[n \in DOMAIN t |-> IF t[n] = "A" THEN "a" ELSE t[n]] :
     t \in UNION {Range(Tokenize(Join(ExpectedFields(documents[i])))) :
                    i \in DOMAIN documents}}

\* C25: with two or more documents, vectorizer_features lists exactly the
\* distinct lowercased word tokens of the space-joined effective field lists:
\* no entry twice, no uppercase letter in an entry, tokens differing only in
\* case as one entry, and, being these tokens in increasing order, the same
\* list whichever method was requested.
C25_FeaturesAreLoweredTokens ==
  (Returned /\ Len(documents) >= 2) =>
    /\ \A i, j \in DOMAIN outcome.vectorizer_features :
         i # j => outcome.vectorizer_features[i] # outcome.vectorizer_features[j]
    /\ \A i, j \in DOMAIN outcome.vectorizer_features :
         i < j => StrLess(outcome.vectorizer_features[i], outcome.vectorizer_features[j])
    /\ \A i \in DOMAIN outcome.vectorizer_features :
         \A n \in DOMAIN outcome.vectorizer_features[i] :
           outcome.vectorizer_features[i][n] # "A"
    /\ Range(outcome.vectorizer_features) = LoweredTokens

C25_Witness ==
  /\ Returned
  /\ call.method = "dbscan"
  /\ Len(documents) = 3
  /\ EffectiveFields(documents[1]) = <<nUpperA>>
  /\ EffectiveFields(documents[2]) = <<nA, nB>>
  /\ EffectiveFields(documents[3]) = <<nAB>>
  /\ outcome.vectorizer_features = <<nA, nB>>

\* C26: with two or more documents loaded, a cluster with exactly one member
\* has that member's own field names as its common_fields, which are then
\* also its all_unique_fields.
C26_SingletonClusterCommon ==
  (Returned /\ Len(documents) >= 2) =>
    \A k \in DOMAIN outcome.clusters :
      Len(outcome.clusters[k].documents) = 1 =>
        /\ Range(outcome.clusters[k].common_fields)
             = Range(outcome.clusters[k].documents[1].field_names)
        /\ Range(outcome.clusters[k].common_fields)
             = Range(outcome.clusters[k].all_unique_fields)

C26_Witness ==
  /\ Returned
  /\ call.method = "dbscan"
  /\ Len(documents) = 3
  /\ documents[1] = documents[2]
  /\ EffectiveFields(documents[1]) = <<nUpperA>>
  /\ EffectiveFields(documents[3]) = <<nB, nB>>
  /\ Len(outcome.clusters["Noise"].documents) = 1
  /\ outcome.clusters["Noise"].common_fields = <<nB>>

\* C27: on at least two documents, with any method and with n_clusters absent
\* or not above the number of documents, DocumentProcessor's implementation
\* (src/main.py) runs the same partitioner with the same cluster count and,
\* for the same partitioner output, returns the same result or raises the
\* same error as DocumentClusterer's.
C27_ImplementationsAgree ==
  ( /\ Clustered
    /\ Len(documents) >= 2
    /\ call.n_clusters = None \/ call.n_clusters[1] <= Len(documents) ) =>
    /\ ProcessorPartitionerRuns(documents, call.n_clusters, call.method)
         = PartitionerRuns(documents, call.n_clusters, call.method)
    /\ call.method = "kmeans" =>
         ProcessorEffectiveK(call.n_clusters, Len(documents))
           = EffectiveK(call.n_clusters, Len(documents))
    /\ processor_cluster_by_field_similarity(documents, call.n_clusters,
                                             call.method, labels) = outcome

C27_Witness ==
  /\ Returned
  /\ call.method = "kmeans"
  /\ call.n_clusters = None
  /\ Len(documents) = 3
  /\ documents[1] = documents[2]
  /\ EffectiveFields(documents[1]) = <<nUpperA>>
  /\ EffectiveFields(documents[3]) = <<nB, nB>>
  /\ outcome.n_clusters = 2
  /\ processor_cluster_by_field_similarity(documents, None, "kmeans", labels).kind = "result"

\* C28 as claimed: a load that raises an error, whichever of the four it is,
\* leaves the previously loaded document set unchanged.
C28_FailedLoadKeepsDocuments ==
  [][ (call'.op = "load" /\ outcome'.kind = "error") => documents' = documents ]_vars

\* the file names listed in bucket k of the result
FilesIn(k) ==
  IF k \in DOMAIN outcome.clusters
    THEN {outcome.clusters[k].documents[n].file_name :
            n \in DOMAIN outcome.clusters[k].documents}
    ELSE {}

\* C29 as claimed: under dbscan every numbered cluster has at least two
\* documents, a document with no other document within the radius is in Noise,
\* and two documents with identical non-empty field lists are never in Noise
\* and share one numbered cluster.
C29_DbscanDensity ==
  (Returned /\ call.method = "dbscan" /\ Len(documents) >= 2) =>
    /\ \A k \in DOMAIN outcome.clusters :
         k # "Noise" => Len(outcome.clusters[k].documents) >= 2
    /\ \A i \in DOMAIN documents :
         (\A j \in DOMAIN documents \ {i} : SurelyFar(documents[i], documents[j]))
           => documents[i].file_name[1] \in FilesIn("Noise")
    /\ \A i, j \in DOMAIN documents :
         ( /\ i # j
           /\ ExpectedFields(documents[i]) # <<>>
           /\ ExpectedFields(documents[i]) = ExpectedFields(documents[j]) ) =>
           /\ documents[i].file_name[1] \notin FilesIn("Noise")
           /\ documents[j].file_name[1] \notin FilesIn("Noise")
           /\ \E k \in DOMAIN outcome.clusters :
                /\ k # "Noise"
                /\ {documents[i].file_name[1], documents[j].file_name[1]} \subseteq FilesIn(k)

\* C30: within every cluster of a returned result the documents list keeps the
\* members in the order of the loaded list: any two members, taken in the
\* cluster's order, are two documents of the loaded list in the list's order.
C30_ClusterKeepsInputOrder ==
  Returned =>
    \A k \in DOMAIN outcome.clusters :
      \A n, m \in DOMAIN outcome.clusters[k].documents :
        n < m =>
          \E i, j \in DOMAIN documents :
            /\ i < j
            /\ documents[i].file_name[1] = outcome.clusters[k].documents[n].file_name
            /\ documents[j].file_name[1] = outcome.clusters[k].documents[m].file_name

C30_Witness ==
  /\ Returned
  /\ call.method = "kmeans"
  /\ call.n_clusters = Some(1)
  /\ Len(documents) = 3
  /\ documents[1].file_name = Some("f3")
  /\ documents[2].file_name = Some("f1")
  /\ documents[3].file_name = Some("f2")
  /\ Len(outcome.clusters["Cluster_0"].documents) = 3
  /\ outcome.clusters["Cluster_0"].documents[1].file_name = "f3"
  /\ outcome.clusters["Cluster_0"].documents[2].file_name = "f1"
  /\ outcome.clusters["Cluster_0"].documents[3].file_name = "f2"

====
